---- MODULE Spec2Model ----
(***************************************************************************)
(* Model of dl-verify: the checksum verifier (lib/hash.go), the GPG key    *)
(* identifier (gpg key id), the key server resolver and downloader (gpg    *)
(* key server) and the command line flow (cmd/dlv/main.go).                *)
(*                                                                         *)
(* Strings are sequences of one-character strings, so that stripping,     *)
(* case conversion, slicing and hex encoding are computed as the code      *)
(* computes them.                                                          *)
(***************************************************************************)
EXTENDS Integers, Sequences, FiniteSets, TLC

VARIABLES
    \* ---- gpg key id ----
    kpc,          \* "input" | "returned" | "cleaned"
    kRaw,         \* the string handed to the factory
    kMin,         \* the minLengthForSecurity of the last call
    kRes,         \* the result of the last call
    \* ---- key server information ----
    ksi,          \* the KeyServerInformation struct
    urls,         \* the slice returned by the last KeyServerURLs call
    lastPerm,     \* the permutation rand.Perm gave to that call
    callerList,   \* ksi.KeyServers as it was before the last operation
    lastOp,       \* name of the last operation on ksi
    \* ---- DownloadKey ----
    dpc,          \* "start" | "loop" | "after" | "done"
    dKey,         \* the *KeyID argument (string contents)
    dUrls,        \* the candidates ranged over by the loop
    queried,      \* the URLs a GET was issued to, in order
    entity,       \* local variable entity
    nonFatalErr,  \* local variable nonFatalErr
    dErr,         \* local variable err
    dIdx,         \* number of completed iterations of the range loop
    lastResponse, \* the answer of the candidate queried last
    firstSignal,  \* the first retryable signal seen in this call
    failAt,       \* position of the first candidate whose GET failed, or 0
    oneAt,        \* position of the first candidate that sent one key, or 0
    multiAt,      \* position of the first candidate that sent several, or 0
    dRet,         \* what DownloadKey returned
    \* ---- VerifyFileChecksums ----
    config,       \* the ChecksumConfig (algorithm -> given string)
    file,         \* content of the downloaded file
    vpc,          \* "idle" | "loop" | "ret"
    remaining,    \* keys of allChecksums the range loop has not visited
    result,       \* the VerificationResult being built
    vRet,         \* what VerifyFileChecksums returned
    \* ---- main ----
    mpc,          \* position in main
    path,         \* the path DownloadToTemporaryFile returned
    stdout,       \* what was written to standard output, in order
    message,      \* the sentence the last ToMessage call rendered
    exitCode      \* -1 while running, else the process exit code

kvars == <<kpc, kRaw, kMin, kRes>>
svars == <<ksi, urls, lastPerm, callerList, lastOp>>
dvars == <<dpc, dKey, dUrls, queried, entity, nonFatalErr, dErr, dIdx, lastResponse,
           firstSignal, failAt, oneAt, multiAt, dRet>>
vvars == <<config, file, vpc, remaining, result, vRet>>
mvars == <<mpc, path, stdout, message, exitCode>>
vars == <<kvars, svars, dvars, vvars, mvars>>

(***************************************************************************)
(* Bounds                                                                  *)
(***************************************************************************)
MaxShortLen == 2      \* every raw key string up to this length is an input
MaxBodyLen == 41      \* longest generated run of hex digits in a raw key
MaxKeyServers == 3    \* longest configured key server list (resolver)
MaxDlServers == 2     \* longest configured key server list (downloader)
MaxRequested == 2     \* most checksums given on one command line

(***************************************************************************)
(* Characters and strings                                                  *)
(***************************************************************************)
HexLower == <<"0","1","2","3","4","5","6","7","8","9","a","b","c","d","e","f">>
HexUpper == <<"0","1","2","3","4","5","6","7","8","9","A","B","C","D","E","F">>

Range(s) == {s[i] : i \in 1..Len(s)}

HexChars == Range(HexLower) \cup Range(HexUpper)

\* unicode.IsSpace / unicode.IsPunct on the characters the model uses.
\* "+" is a symbol (category Sm), neither space nor punctuation.
SpaceChars == {" ", "\t"}
PunctChars == {":", "-", ".", "!"}
IsSpace(c) == c \in SpaceChars
IsPunct(c) == c \in PunctChars

LowerLetters == <<"a","b","c","d","e","f","g","x">>
UpperLetters == <<"A","B","C","D","E","F","G","X">>

IndexOf(s, c) == CHOOSE i \in 1..Len(s) : s[i] = c

ToUpperChar(c) ==
    IF c \in Range(LowerLetters) THEN UpperLetters[IndexOf(LowerLetters, c)] ELSE c
ToLowerChar(c) ==
    IF c \in Range(UpperLetters) THEN LowerLetters[IndexOf(UpperLetters, c)] ELSE c

ToUpper(s) == [i \in 1..Len(s) |-> ToUpperChar(s[i])]
ToLower(s) == [i \in 1..Len(s) |-> ToLowerChar(s[i])]

\* strings.Map with the mapping of NewCleanedKeyID, which drops (returns -1
\* for) every space and punctuation character.
RECURSIVE StripChars(_)
StripChars(s) ==
    IF s = <<>> THEN <<>>
    ELSE IF IsSpace(Head(s)) \/ IsPunct(Head(s)) THEN StripChars(Tail(s))
    ELSE <<Head(s)>> \o StripChars(Tail(s))

\* hex.DecodeString(s) returns no error: even length, hex digits only.
HexDecodes(s) == Len(s) % 2 = 0 /\ \A i \in 1..Len(s) : s[i] \in HexChars

\* s[from:] of Go, from counted from 0.
SliceFrom(s, from) == SubSeq(s, from + 1, Len(s))

(***************************************************************************)
(* gpg key id                                                              *)
(***************************************************************************)
KeyID32BitLength == 8
KeyID64BitLength == 16
FingerprintVersion3Length == 32
FingerprintVersion4Length == 40

KeyOk(k) == [kind |-> "ok", key |-> k, reason |-> ""]
ErrGpgKeyInvalid(k, why) == [kind |-> "ErrGpgKeyInvalid", key |-> k, reason |-> why]
ErrGpgKeyInsecure(k) == [kind |-> "ErrGpgKeyInsecure", key |-> k, reason |-> ""]
KeyPanic == [kind |-> "panic", key |-> <<>>, reason |-> "slice bounds out of range"]
NoKeyResult == [kind |-> "none", key |-> <<>>, reason |-> ""]

SupportedLength(length) ==
    length \in {KeyID32BitLength, KeyID64BitLength,
                FingerprintVersion3Length, FingerprintVersion4Length}

\* Variant of CheckLength with the security comparison reversed.
CheckLengthReversed(keyID, minLengthForSecurity) ==
    IF ~SupportedLength(Len(keyID))
    THEN ErrGpgKeyInvalid(keyID, "Key not a supported length")
    ELSE IF Len(keyID) > minLengthForSecurity THEN ErrGpgKeyInsecure(keyID)
    ELSE KeyOk(keyID)

\* Lines 88-104: the length and security tests on the cleaned string.
CheckLength(keyID, minLengthForSecurity) ==
    IF ~SupportedLength(Len(keyID))
    THEN ErrGpgKeyInvalid(keyID, "Key not a supported length")
    ELSE IF Len(keyID) < minLengthForSecurity THEN ErrGpgKeyInsecure(keyID)
    ELSE KeyOk(keyID)

NewCleanedKeyID(originalKeyID, minLengthForSecurity) ==
    LET stripped == ToUpper(StripChars(originalKeyID))
    IN  IF Len(stripped) < 2 THEN KeyPanic      \* keyID[0:2] out of range
        ELSE
          LET keyID == IF SubSeq(stripped, 1, 2) = <<"0", "X">>
                       THEN SliceFrom(stripped, 2) ELSE stripped
          IN  IF ~HexDecodes(keyID)
              THEN ErrGpgKeyInvalid(keyID, "Key not Hexadecimal")
              ELSE IF Len(keyID) % 2 = 1 /\ keyID[1] = "0"
              THEN CheckLength(SliceFrom(keyID, 1), minLengthForSecurity)
              ELSE CheckLength(keyID, minLengthForSecurity)

NewKeyID(keyID) == NewCleanedKeyID(keyID, FingerprintVersion3Length)
Clean(key) == NewCleanedKeyID(key, KeyID32BitLength)

(***************************************************************************)
(* Key server information                                                  *)
(***************************************************************************)
DefaultKeyServers == <<"pgp.mit.edu">>
getDefaultKeyServers == DefaultKeyServers

Hosts == {"a.example", "b.example"} \cup Range(DefaultKeyServers)

SeqsUpTo(S, n) == UNION {[1..k -> S] : k \in 0..n}

\* The field UseHkps is never read by the code and is left out.
DefaultKeyServerInformation ==
    [KeyServers |-> getDefaultKeyServers, UseHTTP |-> FALSE, UseHTTPS |-> TRUE,
     UseHKP |-> FALSE]

\* The for loop of AddDefaultKeyServers: ksNew after ranging over all, with
\* ksMap the set of names already seen.
RECURSIVE Dedup(_, _, _)
Dedup(all, ksMap, ksNew) ==
    IF all = <<>> THEN ksNew
    ELSE IF Head(all) \notin ksMap
         THEN Dedup(Tail(all), ksMap \cup {Head(all)}, Append(ksNew, Head(all)))
         ELSE Dedup(Tail(all), ksMap, ksNew)

\* Go's builtin copy(dst, src): min(len(dst), len(src)) elements are copied,
\* the length of dst does not change.
Copy(dst, src) ==
    [i \in 1..Len(dst) |-> IF i <= Len(src) THEN src[i] ELSE dst[i]]

AddDefaultKeyServers(k) ==
    [k EXCEPT !.KeyServers =
        Copy(k.KeyServers, Dedup(k.KeyServers \o getDefaultKeyServers, {}, <<>>))]

URL(scheme, host) == [Scheme |-> scheme, Host |-> host]
ZeroURL == URL("", <<>>)
HKPPort == ":11371"

\* rand.Perm(n), shifted to indices 1..n.
Perms(n) == {p \in [1..n -> 1..n] : \A i, j \in 1..n : p[i] = p[j] => i = j}

BoolToInt(b) == IF b THEN 1 ELSE 0

\* Variant of WriteServer that does not advance the offset after the HKP
\* block.
WriteServerSameOffset(k, out, src, target) ==
    LET numKeyServers == Len(k.KeyServers)
        keyServer == k.KeyServers[src]
        off1 == 0
        out1 == IF k.UseHTTPS
                THEN [out EXCEPT ![off1 + target] = URL("https", <<keyServer>>)]
                ELSE out
        off2 == IF k.UseHTTPS THEN off1 + numKeyServers ELSE off1
        out2 == IF k.UseHKP
                THEN [out1 EXCEPT ![off2 + target] = URL("http", <<keyServer, HKPPort>>)]
                ELSE out1
    IN  IF k.UseHTTP
        THEN [out2 EXCEPT ![off2 + target] = URL("http", <<keyServer>>)]
        ELSE out2

\* One iteration of the loop of KeyServerURLs (lines 99-126): the entries
\* written for index src, whose permuted position is target.
WriteServer(k, out, src, target) ==
    LET numKeyServers == Len(k.KeyServers)
        keyServer == k.KeyServers[src]
        off1 == 0
        out1 == IF k.UseHTTPS
                THEN [out EXCEPT ![off1 + target] = URL("https", <<keyServer>>)]
                ELSE out
        off2 == IF k.UseHTTPS THEN off1 + numKeyServers ELSE off1
        out2 == IF k.UseHKP
                THEN [out1 EXCEPT ![off2 + target] = URL("http", <<keyServer, HKPPort>>)]
                ELSE out1
        off3 == IF k.UseHKP THEN off2 + numKeyServers ELSE off2
    IN  IF k.UseHTTP
        THEN [out2 EXCEPT ![off3 + target] = URL("http", <<keyServer>>)]
        ELSE out2

RECURSIVE FillServers(_, _, _, _)
FillServers(k, perm, out, src) ==
    IF src > Len(k.KeyServers) THEN out
    ELSE FillServers(k, perm, WriteServer(k, out, src, perm[src]), src + 1)

KeyServerURLs(k, perm) ==
    LET numProtocols == BoolToInt(k.UseHTTPS) + BoolToInt(k.UseHKP) + BoolToInt(k.UseHTTP)
        numKeyServers == Len(k.KeyServers)
    IN  IF numProtocols = 0 THEN <<>>
        ELSE FillServers(k, perm, [i \in 1..(numProtocols * numKeyServers) |-> ZeroURL], 1)

(***************************************************************************)
(* Key download                                                            *)
(***************************************************************************)
Nil == "nil"
ErrKeyNotFound == "ErrKeyNotFound"
ErrUnexpectedContentType == "ErrUnexpectedContentType"
ErrMultipleKeysReturned == "ErrMultipleKeysReturned"
ErrTransport == "transport error"          \* the error of ctxhttp.Get
ErrMime == "mime: no media type"           \* the error of mime.ParseMediaType

PgpKeys == "application/pgp-keys"

\* An openpgp.Entity, reduced to its PrimaryKey.
Entities == {[PrimaryKey |-> "K1"], [PrimaryKey |-> "K2"]}
NilEntity == [PrimaryKey |-> Nil]
E1 == [PrimaryKey |-> "K1"]
E2 == [PrimaryKey |-> "K2"]

\* What a key server can answer to the GET: the GET fails, or a response
\* with a status, a Content-Type header and a body holding a key ring.
Response(fail, status, ctype, keyring) ==
    [fail |-> fail, status |-> status, ctype |-> ctype, keyring |-> keyring]
NoResponse == Response(FALSE, 0, "", <<>>)
Responses ==
    {Response(TRUE, 0, "", <<>>)}
    \cup {Response(FALSE, st, PgpKeys, <<E1>>) : st \in {199, 299, 300, 404}}
    \cup {Response(FALSE, 200, ct, <<E1>>) :
            ct \in {"", "text/html", "application/pgp-keys; charset=utf-8"}}
    \cup {Response(FALSE, 200, PgpKeys, kr) : kr \in {<<>>, <<E1>>, <<E2>>, <<E1, E2>>, <<E2, E1>>}}

\* mime.ParseMediaType on the headers the model uses: the media type
\* without its parameters, or an error for a missing header.
ParseMediaType(h) ==
    IF h = "" THEN [mediatype |-> "", err |-> ErrMime]
    ELSE IF h = "application/pgp-keys; charset=utf-8"
         THEN [mediatype |-> PgpKeys, err |-> Nil]
    ELSE [mediatype |-> h, err |-> Nil]

Triple(e, nf, err) == [entity |-> e, nonFatalErr |-> nf, err |-> err]

\* Variants of downloadKeyFromKeyServer: several keys are a retryable signal;
\* a failed GET is a fatal error.
downloadKeyMultipleRetryable(resp) ==
    IF resp.fail THEN Triple(NilEntity, ErrTransport, Nil)
    ELSE IF resp.status < 200 \/ resp.status > 299 THEN Triple(NilEntity, ErrKeyNotFound, Nil)
    ELSE IF ParseMediaType(resp.ctype).err # Nil
         THEN Triple(NilEntity, ParseMediaType(resp.ctype).err, Nil)
    ELSE IF ParseMediaType(resp.ctype).mediatype # PgpKeys
         THEN Triple(NilEntity, ErrUnexpectedContentType, Nil)
    ELSE IF Len(resp.keyring) = 0 THEN Triple(NilEntity, ErrKeyNotFound, Nil)
    ELSE IF Len(resp.keyring) > 1 THEN Triple(NilEntity, ErrMultipleKeysReturned, Nil)
    ELSE Triple(resp.keyring[1], Nil, Nil)
downloadKeyTransportFatal(resp) ==
    IF resp.fail THEN Triple(NilEntity, Nil, ErrTransport)
    ELSE IF resp.status < 200 \/ resp.status > 299 THEN Triple(NilEntity, ErrKeyNotFound, Nil)
    ELSE IF ParseMediaType(resp.ctype).err # Nil
         THEN Triple(NilEntity, ParseMediaType(resp.ctype).err, Nil)
    ELSE IF ParseMediaType(resp.ctype).mediatype # PgpKeys
         THEN Triple(NilEntity, ErrUnexpectedContentType, Nil)
    ELSE IF Len(resp.keyring) = 0 THEN Triple(NilEntity, ErrKeyNotFound, Nil)
    ELSE IF Len(resp.keyring) > 1 THEN Triple(NilEntity, Nil, ErrMultipleKeysReturned)
    ELSE Triple(resp.keyring[1], Nil, Nil)

\* downloadKeyFromKeyServer, given the answer resp of the server.
downloadKeyFromKeyServer(resp) ==
    IF resp.fail THEN Triple(NilEntity, ErrTransport, Nil)
    ELSE IF resp.status < 200 \/ resp.status > 299 THEN Triple(NilEntity, ErrKeyNotFound, Nil)
    ELSE IF ParseMediaType(resp.ctype).err # Nil
         THEN Triple(NilEntity, ParseMediaType(resp.ctype).err, Nil)
    ELSE IF ParseMediaType(resp.ctype).mediatype # PgpKeys
         THEN Triple(NilEntity, ErrUnexpectedContentType, Nil)
    ELSE IF Len(resp.keyring) = 0 THEN Triple(NilEntity, ErrKeyNotFound, Nil)
    ELSE IF Len(resp.keyring) > 1 THEN Triple(NilEntity, Nil, ErrMultipleKeysReturned)
    ELSE Triple(resp.keyring[1], Nil, Nil)

\* The body of a response that passed the status and Content-Type tests
\* holds n key entries.
Parsed(resp) ==
    /\ ~resp.fail /\ resp.status >= 200 /\ resp.status <= 299
    /\ ParseMediaType(resp.ctype).err = Nil
    /\ ParseMediaType(resp.ctype).mediatype = PgpKeys

\* Lines 157-167: what the loop does with the triple of one candidate.
LoopControlNoBreak(t) ==
    IF t.err # Nil THEN "return" ELSE "continue"
LoopControlBreakOnRetry(t) ==
    IF t.err # Nil THEN "return"
    ELSE IF t.nonFatalErr # Nil THEN "break"
    ELSE IF t.entity # NilEntity THEN "break"
    ELSE "continue"
LoopControl(t) ==
    IF t.err # Nil THEN "return"
    ELSE IF t.nonFatalErr # Nil THEN "continue"
    ELSE IF t.entity # NilEntity THEN "break"
    ELSE "continue"

Returned(key, err) == [kind |-> "return", key |-> key, err |-> err]
Panicked(why) == [kind |-> "panic", key |-> Nil, err |-> why]
NotReturned == [kind |-> "running", key |-> Nil, err |-> Nil]

(***************************************************************************)
(* Checksums                                                               *)
(***************************************************************************)
HashNames == {"SHA512", "SHA384", "SHA256", "SHA224", "SHA1", "MD5"}

\* ValidHashTypes()[name].Size
HashSize(name) ==
    CASE name = "SHA512" -> 64
      [] name = "SHA384" -> 48
      [] name = "SHA256" -> 32
      [] name = "SHA224" -> 28
      [] name = "SHA1" -> 20
      [] name = "MD5" -> 16

\* Stand-in for the digest functions of crypto/*: a deterministic function
\* of the algorithm and of the bytes read, giving Size bytes.
RECURSIVE SumBytes(_)
SumBytes(content) ==
    IF content = <<>> THEN 0 ELSE 1 + 2 * Head(content) + 3 * SumBytes(Tail(content))

HashSum(name, content) ==
    [i \in 1..HashSize(name) |->
        (HashSize(name) + 7 * i + 11 * Len(content) + 13 * SumBytes(content)) % 256]

\* hex.EncodeToString
RECURSIVE EncodeToString(_)
EncodeToString(bytes) ==
    IF bytes = <<>> THEN <<>>
    ELSE <<HexLower[(Head(bytes) \div 16) + 1], HexLower[(Head(bytes) % 16) + 1]>>
         \o EncodeToString(Tail(bytes))

\* hex.EncodedLen
EncodedLen(n) == 2 * n

\* Variant of AsMap that keeps the case of the given strings.
AsMapKeepCase(cfg) == [name \in HashNames |-> cfg[name]]

\* ChecksumConfig.AsMap
AsMap(cfg) == [name \in HashNames |-> ToLower(cfg[name])]

NoError == [kind |-> "nil"]
InvalidHashLength(name, given) ==
    [kind |-> "InvalidHashLength", HashType |-> name,
     HashHexLength |-> EncodedLen(HashSize(name)), GivenHash |-> given]
InvalidHashCharacters(name, given) ==
    [kind |-> "InvalidHashCharacters", HashType |-> name, GivenHash |-> given]

\* The error one entry of allChecksums gives in ValidateGivenChecksums.
ValidateOne(name, hash) ==
    IF hash = <<>> THEN NoError
    ELSE IF EncodedLen(HashSize(name)) # Len(hash) THEN InvalidHashLength(name, hash)
    ELSE IF ~HexDecodes(hash) THEN InvalidHashCharacters(name, hash)
    ELSE NoError

\* ValidateGivenChecksums ranges over a map: with several bad entries the
\* one reported depends on the iteration order. The set of possible returns.
ValidateGivenChecksums(cfg) ==
    LET errs == {ValidateOne(name, AsMap(cfg)[name]) : name \in HashNames} \ {NoError}
    IN  IF errs = {} THEN {NoError} ELSE errs

VerificationResult(valid, invalid) == [Valid |-> valid, Invalid |-> invalid]
NilResult == VerificationResult(<<>>, <<>>)

\* What VerifyFileChecksums returns: (result, nil) or (nil, err).
Verified(r) == [kind |-> "result", result |-> r, err |-> Nil]
VerifyFailed(err) == [kind |-> "error", result |-> NilResult, err |-> err]
NotVerified == [kind |-> "running", result |-> NilResult, err |-> Nil]
IsValid(v) == Len(v.Valid) >= 1 /\ Len(v.Invalid) = 0
\* Variant of IsInvalid that is true only when nothing matched.
IsInvalidNoneValid(v) == Len(v.Invalid) >= 1 /\ Len(v.Valid) = 0
IsInvalid(v) == Len(v.Invalid) >= 1
IsNoOp(v) == Len(v.Invalid) = 0 /\ Len(v.Valid) = 0

\* A rendered string is the sequence of its pieces: fixed texts, algorithm
\* names and separators. "" is the empty sequence.
NoMessage == <<>>

\* strings.Join
RECURSIVE Join(_, _)
Join(strs, sep) ==
    IF strs = <<>> THEN <<>>
    ELSE IF Len(strs) = 1 THEN <<strs[1]>>
    ELSE <<strs[1], sep>> \o Join(Tail(strs), sep)

englishJoin(strs, sep, lastSep) ==
    LET slen == Len(strs)
    IN  IF slen = 0 THEN <<>>
        ELSE IF slen = 1 THEN <<strs[1]>>
        ELSE Join(SubSeq(strs, 1, slen - 1), sep) \o <<lastSep, strs[slen]>>

\* VerificationResult.ToMessage; the second IsValid test is the one of line 70.
ToMessage(v) ==
    IF IsNoOp(v) THEN <<"The file's contents was not validated using checksums">>
    ELSE IF IsValid(v)
    THEN <<"The file's contents succeeded validatation using ">>
         \o englishJoin(v.Valid, ", ", " and ")
    ELSE LET failed == <<"The file's contents failed validation using ">>
                       \o englishJoin(v.Invalid, ", ", " and ")
         IN  IF IsValid(v)
             THEN failed \o <<", it did succeed validation using ">>
                  \o englishJoin(v.Valid, ", ", " and ")
             ELSE failed

(***************************************************************************)
(* Inputs                                                                  *)
(***************************************************************************)
ShortAlphabet == {"0", "1", "x", "X", "a", "F", "g", " ", ":", "+"}

HexRun(n, digits) == [i \in 1..n |-> digits[((7 * i) % 16) + 1]]

\* s with a colon after every second character.
WithColons(s) ==
    [j \in 1..(Len(s) + Len(s) \div 2) |-> IF j % 3 = 0 THEN ":" ELSE s[j - j \div 3]]

Prefixes == {<<>>, <<"0", "x">>, <<"0", "X">>, <<"0">>}

ExampleKey == <<"0", "x", "1", "2", "3", "4", " ", "5", "6", "7", "8">>

RawKeyIDs ==
    SeqsUpTo(ShortAlphabet, MaxShortLen)
    \cup {ExampleKey}
    \cup UNION {{p \o HexRun(n, HexUpper), p \o HexRun(n, HexLower),
                 p \o WithColons(HexRun(n, HexLower)), p \o HexRun(n, HexLower) \o <<"g">>}
                : p \in Prefixes, n \in 0..MaxBodyLen}

MinLengths == {0, KeyID32BitLength, 9, KeyID64BitLength, FingerprintVersion3Length,
               FingerprintVersion4Length, 41}

KSIs(maxServers) ==
    [KeyServers : SeqsUpTo(Hosts, maxServers), UseHTTP : BOOLEAN, UseHTTPS : BOOLEAN,
     UseHKP : BOOLEAN]

\* The key main asks for, and the keys the downloader is given.
MainKey == HexRun(FingerprintVersion4Length, HexUpper)
DownloadKeys == {MainKey, HexRun(KeyID32BitLength, HexLower), <<"0", "x", "g", "g">>, <<>>}

Files == {<<>>, <<0>>, <<1>>}
MainFiles == {<<0>>}

\* The hex digest of every file under every algorithm.
DigestHex ==
    [name \in HashNames |-> [content \in Files |-> EncodeToString(HashSum(name, content))]]

OtherFile(content) == IF content = <<0>> THEN <<1>> ELSE <<0>>

\* What a caller may give for one algorithm: the digest in lower case, in
\* upper case, the digest of another file, a string of the wrong length and
\* a string of the right length that is not hexadecimal.
Given(name, content, k) ==
    CASE k = 1 -> DigestHex[name][content]
      [] k = 2 -> ToUpper(DigestHex[name][content])
      [] k = 3 -> DigestHex[name][OtherFile(content)]
      [] k = 4 -> Tail(DigestHex[name][content])
      [] k = 5 -> <<"g">> \o Tail(DigestHex[name][content])

ConfigsFor(content, kinds) ==
    UNION {{[name \in HashNames |-> IF name \in S THEN Given(name, content, f[name]) ELSE <<>>]
            : f \in [S -> kinds]}
           : S \in {T \in SUBSET HashNames : Cardinality(T) <= MaxRequested}}

EmptyConfig == [name \in HashNames |-> <<>>]

(***************************************************************************)
(* Idle values of the parts a specification does not exercise              *)
(***************************************************************************)
KIdle == kpc = "idle" /\ kRaw = <<>> /\ kMin = 0 /\ kRes = NoKeyResult
SIdle == /\ ksi = DefaultKeyServerInformation /\ urls = <<>> /\ lastPerm = <<>>
         /\ callerList = <<>> /\ lastOp = "none"
DFresh == /\ dUrls = <<>> /\ queried = <<>> /\ entity = NilEntity /\ nonFatalErr = Nil
          /\ dErr = Nil /\ dIdx = 0 /\ lastResponse = NoResponse /\ firstSignal = Nil
          /\ failAt = 0 /\ oneAt = 0 /\ multiAt = 0
          /\ dRet = NotReturned
DIdle == dpc = "idle" /\ dKey = <<>> /\ DFresh
VFresh == /\ remaining = {} /\ result = VerificationResult(<<>>, <<>>)
          /\ vRet = NotVerified
VIdle == vpc = "idle" /\ config = EmptyConfig /\ file = <<>> /\ VFresh
MIdle == mpc = "idle" /\ path = "" /\ stdout = <<>> /\ message = NoMessage /\ exitCode = -1

(***************************************************************************)
(* gpg key id: the three entry points                                      *)
(***************************************************************************)
KInit ==
    /\ kpc = "input" /\ kRaw \in RawKeyIDs /\ kMin = 0 /\ kRes = NoKeyResult
    /\ SIdle /\ DIdle /\ VIdle /\ MIdle

CallNewCleanedKeyID ==
    /\ kpc = "input"
    /\ \E m \in MinLengths :
         /\ kMin' = m
         /\ kRes' = NewCleanedKeyID(kRaw, m)
    /\ kpc' = "returned"
    /\ UNCHANGED <<kRaw, svars, dvars, vvars, mvars>>

CallNewKeyID ==
    /\ kpc = "input"
    /\ kMin' = FingerprintVersion3Length
    /\ kRes' = NewKeyID(kRaw)
    /\ kpc' = "returned"
    /\ UNCHANGED <<kRaw, svars, dvars, vvars, mvars>>

\* key.Clean() on a KeyID a factory returned.
CallClean ==
    /\ kpc = "returned"
    /\ kRes.kind = "ok"
    /\ kMin' = KeyID32BitLength
    /\ kRes' = Clean(kRes.key)
    /\ kpc' = "cleaned"
    /\ UNCHANGED <<kRaw, svars, dvars, vvars, mvars>>

KNext == CallNewCleanedKeyID \/ CallNewKeyID \/ CallClean

SpecKeyID == KInit /\ [][KNext]_vars

(***************************************************************************)
(* Key server resolver: AddDefaultKeyServers and KeyServerURLs             *)
(***************************************************************************)
SInit ==
    /\ ksi \in KSIs(MaxKeyServers)
    /\ urls = <<>> /\ lastPerm = <<>> /\ callerList = <<>> /\ lastOp = "none"
    /\ KIdle /\ DIdle /\ VIdle /\ MIdle

CallAddDefaultKeyServers ==
    /\ callerList' = ksi.KeyServers
    /\ ksi' = AddDefaultKeyServers(ksi)
    /\ lastOp' = "AddDefaultKeyServers"
    /\ UNCHANGED <<urls, lastPerm, kvars, dvars, vvars, mvars>>

CallKeyServerURLs ==
    /\ \E perm \in Perms(Len(ksi.KeyServers)) :
         /\ urls' = KeyServerURLs(ksi, perm)
         /\ lastPerm' = perm
    /\ callerList' = ksi.KeyServers
    /\ lastOp' = "KeyServerURLs"
    /\ UNCHANGED <<ksi, kvars, dvars, vvars, mvars>>

SNext == CallAddDefaultKeyServers \/ CallKeyServerURLs

SpecResolver == SInit /\ [][SNext]_vars

(***************************************************************************)
(* DownloadKey                                                             *)
(* The context and the key pointer are never nil in the model; a nil       *)
(* client is replaced by a default one and plays no further part.          *)
(***************************************************************************)
DInit ==
    /\ ksi \in KSIs(MaxDlServers)
    /\ urls = <<>> /\ lastPerm = <<>> /\ callerList = <<>> /\ lastOp = "none"
    /\ dpc = "start" /\ dKey \in DownloadKeys /\ DFresh
    /\ KIdle /\ VIdle /\ MIdle

\* Lines 131-153: key.Clean(), then the candidate list is computed once.
DownloadKeyStart ==
    /\ dpc = "start"
    /\ LET c == Clean(dKey)
       IN  IF c.kind = "panic"
           THEN /\ dRet' = Panicked(c.reason) /\ dpc' = "done"
                /\ UNCHANGED <<dKey, dUrls>>
           ELSE IF c.kind # "ok"
           THEN /\ dRet' = Returned(Nil, c.kind) /\ dpc' = "done"
                /\ UNCHANGED <<dKey, dUrls>>
           ELSE /\ dKey' = c.key
                /\ \E perm \in Perms(Len(ksi.KeyServers)) :
                     dUrls' = KeyServerURLs(ksi, perm)
                /\ dpc' = "loop"
                /\ UNCHANGED dRet
    /\ UNCHANGED <<queried, entity, nonFatalErr, dErr, dIdx, lastResponse, firstSignal,
                   failAt, oneAt, multiAt, kvars, svars, vvars, mvars>>

\* Lines 153-168: one iteration of the range loop; resp is what the
\* candidate at position dIdx + 1 answers.
DownloadKeyIteration ==
    /\ dpc = "loop"
    /\ dIdx < Len(dUrls)
    /\ \E resp \in Responses :
         LET t == downloadKeyFromKeyServer(resp)
             at == dIdx + 1
         IN  /\ queried' = Append(queried, dUrls[at])
             /\ lastResponse' = resp
             /\ entity' = t.entity
             /\ nonFatalErr' = t.nonFatalErr
             /\ dErr' = t.err
             /\ firstSignal' = IF firstSignal = Nil THEN t.nonFatalErr ELSE firstSignal
             /\ failAt' = IF failAt = 0 /\ resp.fail THEN at ELSE failAt
             /\ oneAt' = IF oneAt = 0 /\ Parsed(resp) /\ Len(resp.keyring) = 1
                         THEN at ELSE oneAt
             /\ multiAt' = IF multiAt = 0 /\ Parsed(resp) /\ Len(resp.keyring) > 1
                           THEN at ELSE multiAt
             /\ IF LoopControl(t) = "return"
                THEN /\ dRet' = Returned(Nil, t.err) /\ dpc' = "done"
                     /\ UNCHANGED dIdx
                ELSE IF LoopControl(t) = "break"
                THEN /\ dpc' = "after" /\ UNCHANGED <<dRet, dIdx>>
                ELSE /\ dIdx' = at /\ UNCHANGED <<dRet, dpc>>
    /\ UNCHANGED <<dKey, dUrls, kvars, svars, vvars, mvars>>

\* The range loop has no candidate left.
DownloadKeyLoopEnd ==
    /\ dpc = "loop"
    /\ dIdx >= Len(dUrls)
    /\ dpc' = "after"
    /\ UNCHANGED <<dKey, dUrls, queried, entity, nonFatalErr, dErr, dIdx, lastResponse,
                   firstSignal, failAt, oneAt, multiAt, dRet, kvars, svars, vvars, mvars>>

\* Lines 169-176.
DownloadKeyReturn ==
    /\ dpc = "after"
    /\ dRet' = IF nonFatalErr # Nil THEN Returned(Nil, nonFatalErr)
               ELSE IF entity = NilEntity THEN Panicked("nil pointer dereference")
               ELSE Returned(entity.PrimaryKey, Nil)
    /\ dpc' = "done"
    /\ UNCHANGED <<dKey, dUrls, queried, entity, nonFatalErr, dErr, dIdx, lastResponse,
                   firstSignal, failAt, oneAt, multiAt, kvars, svars, vvars, mvars>>

DNext ==
    DownloadKeyStart \/ DownloadKeyIteration \/ DownloadKeyLoopEnd \/ DownloadKeyReturn

SpecDownload == DInit /\ [][DNext]_vars

(***************************************************************************)
(* VerifyFileChecksums                                                     *)
(***************************************************************************)
\* What reading the file at p can do in one pass of the loop: os.Open
\* fails, io.Copy fails, or the whole file is read.
ReadOutcomes(p) == IF p = "" THEN {"open failed"} ELSE {"open failed", "copy failed", "read"}

\* Lines 234-245: the digest of the bytes read is compared with the
\* expected one and the algorithm is appended to Valid or to Invalid.
Classify(res, hashKey, expectedHash, content) ==
    LET pathHash == EncodeToString(HashSum(hashKey, content))
    IN  IF expectedHash = pathHash
        THEN [res EXCEPT !.Valid = Append(res.Valid, hashKey)]
        ELSE [res EXCEPT !.Invalid = Append(res.Invalid, hashKey)]

VInit ==
    /\ file \in Files
    /\ config \in ConfigsFor(file, 1..3)
    /\ vpc = "loop" /\ remaining = HashNames
    /\ result = NilResult /\ vRet = NotVerified
    /\ mpc = "idle" /\ path = "tmp/file" /\ stdout = <<>> /\ message = NoMessage
    /\ exitCode = -1
    /\ KIdle /\ SIdle /\ DIdle

\* Lines 213-246: one iteration of the range over allChecksums, a Go map:
\* any key not yet visited can come next.
VerifyIteration ==
    /\ vpc = "loop"
    /\ \E hashKey \in remaining :
         LET expectedHash == AsMap(config)[hashKey]
         IN  /\ remaining' = remaining \ {hashKey}
             /\ IF expectedHash = <<>>
                THEN UNCHANGED <<result, vRet, vpc>>
                ELSE \E io \in ReadOutcomes(path) :
                       IF io # "read"
                       THEN /\ vRet' = VerifyFailed(io) /\ vpc' = "ret"
                            /\ UNCHANGED result
                       ELSE /\ result' = Classify(result, hashKey, expectedHash, file)
                            /\ UNCHANGED <<vRet, vpc>>
    /\ UNCHANGED <<config, file, kvars, svars, dvars, mvars>>

\* Line 247.
VerifyReturn ==
    /\ vpc = "loop"
    /\ remaining = {}
    /\ vRet' = Verified(result)
    /\ vpc' = "ret"
    /\ UNCHANGED <<config, file, remaining, result, kvars, svars, dvars, mvars>>

VNext == VerifyIteration \/ VerifyReturn

\* A caller renders the result it got.
CallToMessage ==
    /\ vpc = "ret"
    /\ vRet.kind = "result"
    /\ message' = ToMessage(vRet.result)
    /\ UNCHANGED <<mpc, path, stdout, exitCode, kvars, svars, dvars, vvars>>

VMNext == VNext \/ CallToMessage

SpecVerify == VInit /\ [][VMNext]_vars

(***************************************************************************)
(* main                                                                    *)
(***************************************************************************)
Exit(code) == mpc' = "exit" /\ exitCode' = code

Artifact(bytes) == [kind |-> "artifact", bytes |-> bytes]
KeyDump == [kind |-> "keydump", bytes |-> <<>>]

MInit ==
    /\ mpc = "keylookup" /\ path = "" /\ stdout = <<>> /\ message = NoMessage
    /\ exitCode = -1
    /\ SIdle
    /\ dpc = "start" /\ dKey = NewKeyID(MainKey).key /\ DFresh
    /\ file \in MainFiles /\ config = EmptyConfig /\ vpc = "idle" /\ VFresh
    /\ KIdle

\* Lines 58-63: the key lookup has returned and its result is printed on
\* standard output; the block ends and its variables with it. A panic of
\* DownloadKey ends the process with status 2.
MainPrintKey ==
    /\ mpc = "keylookup"
    /\ dpc = "done"
    /\ IF dRet.kind = "panic"
       THEN Exit(2) /\ UNCHANGED stdout
       ELSE /\ stdout' = Append(stdout, KeyDump)
            /\ mpc' = "parse"
            /\ UNCHANGED exitCode
    /\ dpc' = "idle" /\ dKey' = <<>> /\ dUrls' = <<>> /\ queried' = <<>>
    /\ entity' = NilEntity /\ nonFatalErr' = Nil /\ dErr' = Nil /\ dIdx' = 0
    /\ lastResponse' = NoResponse /\ firstSignal' = Nil
    /\ failAt' = 0 /\ oneAt' = 0 /\ multiAt' = 0 /\ dRet' = NotReturned
    /\ UNCHANGED <<path, message, kvars, svars, vvars>>

\* Lines 66-78: flags.Parse fills args or fails; ConfigureLogging returns nil.
MainParse ==
    /\ mpc = "parse"
    /\ \E ok \in BOOLEAN :
         IF ok
         THEN /\ config' \in ConfigsFor(file, 1..5)
              /\ mpc' = "validate"
              /\ UNCHANGED exitCode
         ELSE Exit(3) /\ UNCHANGED config
    /\ UNCHANGED <<path, stdout, message, file, vpc, remaining, result, vRet, kvars, svars,
                   dvars>>

\* Lines 79-83.
MainValidate ==
    /\ mpc = "validate"
    /\ \E e \in ValidateGivenChecksums(config) :
         IF e.kind # "nil" THEN Exit(3) ELSE mpc' = "tempdir" /\ UNCHANGED exitCode
    /\ UNCHANGED <<path, stdout, message, kvars, svars, dvars, vvars>>

\* Lines 85-96.
MainTempDir ==
    /\ mpc = "tempdir"
    /\ \E ok \in BOOLEAN :
         IF ok THEN mpc' = "download" /\ UNCHANGED exitCode ELSE Exit(4)
    /\ UNCHANGED <<path, stdout, message, kvars, svars, dvars, vvars>>

\* Lines 98-103: the error of DownloadToTemporaryFile is dropped, the path
\* is "" when it failed; VerifyFileChecksums is called with it.
MainDownload ==
    /\ mpc = "download"
    /\ \E ok \in BOOLEAN : path' = IF ok THEN "tmp/file" ELSE ""
    /\ mpc' = "verify"
    /\ vpc' = "loop" /\ remaining' = HashNames /\ result' = NilResult
    /\ UNCHANGED <<stdout, message, exitCode, config, file, vRet, kvars, svars, dvars>>

\* Lines 104-128: the tests on what VerifyFileChecksums returned; a failed
\* verification is reported with the sentence of ToMessage.
MainChecked ==
    /\ mpc = "verify"
    /\ vpc = "ret"
    /\ IF vRet.err # Nil THEN Exit(4) /\ UNCHANGED message
       ELSE IF IsInvalid(vRet.result)
       THEN Exit(1) /\ message' = ToMessage(vRet.result)
       ELSE IF ~(FALSE \/ ~IsNoOp(vRet.result)) THEN Exit(1) /\ UNCHANGED message
       ELSE mpc' = "write" /\ UNCHANGED <<exitCode, message>>
    /\ UNCHANGED <<path, stdout, kvars, svars, dvars, vvars>>

\* Lines 131-139 with writeOutFile: the file is not opened, or the copy to
\* standard output stops after some bytes, or it is complete.
MainWriteOut ==
    /\ mpc = "write"
    /\ \E out \in {"open failed", "copy failed", "written"} :
         IF out = "open failed" THEN Exit(4) /\ UNCHANGED stdout
         ELSE IF out = "copy failed"
         THEN /\ \E n \in 0..Len(file) :
                   stdout' = Append(stdout, Artifact(SubSeq(file, 1, n)))
              /\ Exit(4)
         ELSE /\ stdout' = Append(stdout, Artifact(file))
              /\ Exit(0)
    /\ UNCHANGED <<path, message, kvars, svars, dvars, vvars>>

MNext ==
    \/ DNext
    \/ VNext
    \/ MainPrintKey \/ MainParse \/ MainValidate \/ MainTempDir \/ MainDownload
    \/ MainChecked \/ MainWriteOut

SpecMain == MInit /\ [][MNext]_vars

(***************************************************************************)
(* Properties                                                              *)
(***************************************************************************)
Count(x, s) == Cardinality({i \in 1..Len(s) : s[i] = x})

ArtifactWritten == \E i \in 1..Len(stdout) : stdout[i].kind = "artifact"
ChecksumsPassed ==
    /\ vRet.kind = "result"
    /\ Len(vRet.result.Valid) >= 1
    /\ Len(vRet.result.Invalid) = 0

\* C1: main writes bytes of the artifact to standard output only when
\* VerifyFileChecksums returned without error with at least one Valid and no
\* Invalid algorithm; in every other outcome the process has a non-zero exit
\* code and no artifact byte was written.
C1_ArtifactOnlyAfterValidChecksums ==
    /\ ArtifactWritten => ChecksumsPassed
    /\ (mpc = "exit" /\ ~ChecksumsPassed) => (exitCode # 0 /\ ~ArtifactWritten)

C1_Witness == ArtifactWritten /\ exitCode = 0 /\ Len(vRet.result.Valid) >= 2

QueriedInOrder == queried = SubSeq(dUrls, 1, Len(queried))

\* C2: when a candidate's response parses to more than one key entry,
\* DownloadKey returns ErrMultipleKeysReturned without a key and that
\* candidate is the last one queried.
C2_MultipleKeysStopTheLookup ==
    multiAt > 0 =>
        /\ dpc = "done"
        /\ dRet = Returned(Nil, ErrMultipleKeysReturned)
        /\ Len(queried) = multiAt
        /\ QueriedInOrder

C2_Witness == multiAt > 1 /\ multiAt < Len(dUrls) /\ dpc = "done"

\* C3 as stated: a failed GET is immediately fatal, DownloadKey returns the
\* transport error and no further candidate is queried.
C3_TransportFailureIsFatal ==
    failAt > 0 =>
        /\ dpc = "done"
        /\ dRet = Returned(Nil, ErrTransport)
        /\ Len(queried) = failAt

\* C3 as amended: a failed GET is a retryable signal. While candidates are
\* left DownloadKey has not returned and goes on with the next one; it
\* returns the transport error only when the failed candidate is the last of
\* the list; when the candidates after it give retryable signals up to one
\* that sends exactly one key, DownloadKey returns that key with a nil error.
C3_TransportFailureIsRetryable ==
    /\ (lastResponse.fail /\ Len(queried) < Len(dUrls)) =>
            (dpc = "loop" /\ dRet = NotReturned /\ dIdx = Len(queried))
    /\ (lastResponse.fail /\ dpc = "done") =>
            (Len(queried) = Len(dUrls) /\ dRet = Returned(Nil, ErrTransport))
    /\ (failAt > 0 /\ oneAt > failAt /\ dpc = "done") =>
            dRet = Returned(lastResponse.keyring[1].PrimaryKey, Nil)

C3_Witness == failAt > 0 /\ oneAt > failAt /\ dpc = "done" /\ dRet.key # Nil

\* C4: candidates are queried one at a time in the order of KeyServerURLs;
\* when candidate i is the first to send exactly one key (all before it gave
\* retryable signals), DownloadKey returns that entry's primary key with a
\* nil error and no candidate after i is queried.
C4_FirstSingleKeyWins ==
    /\ QueriedInOrder
    /\ oneAt > 0 =>
        /\ dpc \in {"after", "done"}
        /\ Len(queried) = oneAt
        /\ dpc = "done" => dRet = Returned(lastResponse.keyring[1].PrimaryKey, Nil)

C4_Witness ==
    dpc = "done" /\ oneAt > 1 /\ oneAt < Len(dUrls) /\ firstSignal # Nil /\ dRet.key = "K2"

\* The retryable signal a response stands for.
RetrySignal(resp) ==
    IF resp.fail THEN ErrTransport
    ELSE IF resp.status \notin 200..299 THEN ErrKeyNotFound
    ELSE IF resp.ctype = "" THEN ErrMime
    ELSE IF ParseMediaType(resp.ctype).mediatype # PgpKeys THEN ErrUnexpectedContentType
    ELSE ErrKeyNotFound

\* C5: when the candidate list is not empty and every candidate gives a
\* retryable signal, every candidate is queried exactly once and DownloadKey
\* returns no key and the signal of the last candidate as its error.
C5_ExhaustionReturnsLastSignal ==
    (dpc = "done" /\ dUrls # <<>> /\ oneAt = 0 /\ multiAt = 0) =>
        /\ queried = dUrls
        /\ dRet = Returned(Nil, RetrySignal(lastResponse))
        /\ dRet.err # Nil

C5_Witness ==
    /\ dpc = "done" /\ Len(dUrls) >= 2 /\ queried = dUrls /\ oneAt = 0 /\ multiAt = 0
    /\ dRet.kind = "return" /\ firstSignal # dRet.err

\* The protocols of a KeyServerInformation in priority order.
EnabledProtocols(k) ==
    (IF k.UseHTTPS THEN <<"HTTPS">> ELSE <<>>)
    \o (IF k.UseHKP THEN <<"HKP">> ELSE <<>>)
    \o (IF k.UseHTTP THEN <<"HTTP">> ELSE <<>>)

HasProtocol(u, proto) ==
    CASE proto = "HTTPS" -> u.Scheme = "https" /\ Len(u.Host) = 1
      [] proto = "HKP" -> u.Scheme = "http" /\ Len(u.Host) = 2 /\ u.Host[2] = HKPPort
      [] proto = "HTTP" -> u.Scheme = "http" /\ Len(u.Host) = 1

\* C6: KeyServerURLs returns P*S URLs in blocks of S, one block per enabled
\* protocol in the order HTTPS, HKP, HTTP; every block holds the configured
\* hostnames once each, in the same order in all blocks.
C6_ProtocolBlocks ==
    lastOp = "KeyServerURLs" =>
        LET S == Len(ksi.KeyServers)
            protos == EnabledProtocols(ksi)
            P == Len(protos)
        IN  /\ Len(urls) = P * S
            /\ \A b \in 1..P : \A t \in 1..S :
                 /\ HasProtocol(urls[(b - 1) * S + t], protos[b])
                 /\ urls[(b - 1) * S + t].Host[1] = urls[t].Host[1]
            /\ P > 0 => \E p \in Perms(S) :
                 \A t \in 1..S : urls[p[t]].Host[1] = ksi.KeyServers[t]

C6_Witness ==
    /\ lastOp = "KeyServerURLs" /\ Len(urls) = 6 /\ Len(ksi.KeyServers) = 2
    /\ ksi.KeyServers[1] # ksi.KeyServers[2]
    /\ urls[1].Host[1] = ksi.KeyServers[2]

FirstIndex(s, x) == CHOOSE i \in 1..Len(s) : s[i] = x /\ \A j \in 1..(i - 1) : s[j] # x

\* r is s with every repeated element removed, in first-seen order.
IsFirstSeenUnion(r, s) ==
    /\ Range(r) = Range(s)
    /\ \A i, j \in 1..Len(r) : i < j => FirstIndex(s, r[i]) < FirstIndex(s, r[j])

\* C7: after AddDefaultKeyServers the KeyServers list is the caller's list
\* followed by the defaults, repeated hostnames removed in first-seen order:
\* every default is present and no hostname appears twice.
C7_DefaultsAddedOnce ==
    lastOp = "AddDefaultKeyServers" =>
        /\ IsFirstSeenUnion(ksi.KeyServers, callerList \o getDefaultKeyServers)
        /\ Range(getDefaultKeyServers) \subseteq Range(ksi.KeyServers)
        /\ \A h \in Hosts : Count(h, ksi.KeyServers) <= 1

\* C8: when VerifyFileChecksums returns without error, an algorithm with a
\* non-empty expected digest is exactly once in exactly one of Valid and
\* Invalid, in Valid iff the lower-cased expected digest is the hex digest of
\* the file; an algorithm with an empty expected digest is in neither.
C8_EachRequestedAlgorithmClassifiedOnce ==
    vRet.kind = "result" =>
        \A name \in HashNames :
            LET inValid == Count(name, vRet.result.Valid)
                inInvalid == Count(name, vRet.result.Invalid)
            IN  IF config[name] = <<>>
                THEN inValid = 0 /\ inInvalid = 0
                ELSE /\ inValid + inInvalid = 1
                     /\ inValid = 1 <=> ToLower(config[name]) = DigestHex[name][file]

C8_Witness ==
    /\ vRet.kind = "result"
    /\ Len(vRet.result.Valid) >= 1 /\ Len(vRet.result.Invalid) >= 1
    /\ \E name \in HashNames :
         /\ Count(name, vRet.result.Valid) = 1
         /\ config[name] # ToLower(config[name])

\* C9: a KeyID returned by NewCleanedKeyID has only upper-case hexadecimal
\* digits, a length in {8, 16, 32, 40} and a length of at least
\* minSecurityLength; with the minimum 32 of NewKeyID no KeyID of length 8 or
\* 16 is returned; "0x1234 5678" is returned as "12345678" when the minimum is
\* at most 8 and only then, and is ErrGpgKeyInsecure under the minimum 32.
C9_KeyIDWellFormed ==
    /\ kRes.kind = "ok" =>
        /\ \A i \in 1..Len(kRes.key) : kRes.key[i] \in Range(HexUpper)
        /\ Len(kRes.key) \in {8, 16, 32, 40}
        /\ Len(kRes.key) >= kMin
        /\ kMin = 32 => Len(kRes.key) \notin {8, 16}
    /\ (kpc = "returned" /\ kRaw = ExampleKey) =>
        /\ kMin <= 8 => kRes = KeyOk(<<"1", "2", "3", "4", "5", "6", "7", "8">>)
        /\ kRes.kind = "ok" => kMin <= 8
        /\ kMin = 32 => kRes.kind = "ErrGpgKeyInsecure"

C9_Witness ==
    kpc = "returned" /\ kRaw = ExampleKey /\ kRes.kind = "ok" /\ kMin = 8

\* The raw string after stripping, upper-casing and removal of a leading 0X.
Stripped0X(raw) ==
    LET s == ToUpper(StripChars(raw))
    IN  IF Len(s) >= 2 /\ SubSeq(s, 1, 2) = <<"0", "X">> THEN SubSeq(s, 3, Len(s)) ELSE s

FinalLength(raw) ==
    LET s == Stripped0X(raw)
    IN  IF Len(s) % 2 = 1 /\ s[1] = "0" THEN Len(s) - 1 ELSE Len(s)

\* C10: for every raw string, the empty one and those of fewer than two
\* characters after stripping included, NewCleanedKeyID returns a result and
\* does not abort, and a hexadecimal input whose final length is not in
\* {8, 16, 32, 40} is rejected with ErrGpgKeyInvalid (unsupported length).
C10_NeverAbortsRejectsOtherLengths ==
    kpc = "returned" =>
        /\ kRes.kind # "panic"
        /\ ((\A i \in 1..Len(Stripped0X(kRaw)) : Stripped0X(kRaw)[i] \in HexChars)
             /\ FinalLength(kRaw) \notin {8, 16, 32, 40}) =>
                (kRes.kind = "ErrGpgKeyInvalid" /\ kRes.reason = "Key not a supported length")

\* C11: when the string left after stripping, upper-casing and removal of a
\* leading 0X has odd length, starts with 0 and is all hexadecimal, the
\* leading zero is dropped and validation goes on with the rest: a 0 followed
\* by 8 hex digits is accepted as the 8-digit KeyID under the minimum 8.
C11_LeadingZeroDropped ==
    LET s == Stripped0X(kRaw)
    IN  (/\ kpc = "returned"
         /\ Len(s) >= 3 /\ Len(s) % 2 = 1 /\ s[1] = "0"
         /\ \A i \in 1..Len(s) : s[i] \in HexChars) =>
            /\ kRes.kind # "panic"
            /\ kRes.reason # "Key not Hexadecimal"
            /\ kRes.key = Tail(s)
            /\ (Len(s) = 9 /\ kMin = 8) => kRes = KeyOk(Tail(s))

IsMixed(v) == Len(v.Valid) >= 1 /\ Len(v.Invalid) >= 1

\* C12: ToMessage renders a distinct sentence for each of the four shapes of
\* a result; for a mixed result the sentence names the failed algorithms and
\* also the algorithms that succeeded, so it differs from the sentence of the
\* all-invalid result with the same Invalid list.
C12_MixedMessageNamesBoth ==
    (vpc = "ret" /\ vRet.kind = "result" /\ message # NoMessage /\ IsMixed(vRet.result)) =>
        /\ \A i \in 1..Len(vRet.result.Invalid) : vRet.result.Invalid[i] \in Range(message)
        /\ \A i \in 1..Len(vRet.result.Valid) : vRet.result.Valid[i] \in Range(message)
        /\ message # ToMessage(VerificationResult(<<>>, vRet.result.Invalid))

\* C13: once the key is accepted, DownloadKey ends its candidate loop by
\* returning either a key with a nil error or no key with an error, also when
\* KeyServerURLs yields no candidate (no protocol enabled or no hostname
\* configured): it then returns an error and dereferences no missing entry.
C13_AlwaysKeyOrError ==
    (dpc = "done" /\ Clean(dKey).kind = "ok") =>
        /\ dRet.kind = "return"
        /\ \/ dRet.key # Nil /\ dRet.err = Nil
           \/ dRet.key = Nil /\ dRet.err # Nil
        /\ dUrls = <<>> => dRet.err # Nil

====
